---- MODULE Spec2Model ----
(***************************************************************************)
(* Region-based bump-pointer arena of src/src/main.c.                      *)
(*                                                                         *)
(* Addresses and sizes are unsigned machine words (uintptr_t, size_t) and  *)
(* every sum and difference is taken modulo 2^WordBits, as the C code      *)
(* computes it.  The operating system hands out page-aligned mappings in   *)
(* the lower half of the address space (user space) and never at address   *)
(* zero.                                                                   *)
(***************************************************************************)
EXTENDS Integers, Naturals, Sequences, FiniteSets, TLC

VARIABLES
    arena,      \* arena_t: [start, current, region_size, region_count]
    heap,       \* live region_t headers: header address -> [next, cap, free, begin]
    mapped,     \* page addresses the process has mapped at the moment
    mapLog,     \* every mmap call that succeeded: <<address, length>>, in order
    unmapLog,   \* every munmap call: <<address, length>>, in order
    last,       \* the last call: [op, size, align, ret, nmap, nunmap]
    aborted,    \* the process was terminated by the failed assert of line 86
    hist,       \* the calls made on the stand-alone region: <<[size, align, ret]>>
    accessLog   \* what arena_release did to the regions: <<[op, region, unmapped]>>

vars == <<arena, heap, mapped, mapLog, unmapLog, last, aborted, hist, accessLog>>

----------------------------------------------------------------------------
(* Machine parameters *)

\* width of size_t and uintptr_t in bits (scaled down from 64)
WordBits == 10

Modulus == 2 ^ WordBits

\* first address above user space: mappings and stack objects lie below it
UserTop == Modulus \div 2

\* sizeof(region_t): four word-sized fields on the LP64 target
HeaderSize == 32

\* granularity and alignment of mmap
PageSize == 128

\* how many pages the operating system can hand out before mmap fails
NPages == 3

\* the null pointer, and MAP_FAILED's counterpart for "no block"
NULL == 0

\* a + b and a - b on unsigned words
Add(a, b) == (a + b) % Modulus

Sub(a, b) == (a - b + Modulus) % Modulus

RECURSIVE BitAnd(_, _)
\* a & b
BitAnd(a, b) ==
    IF a = 0 \/ b = 0 THEN 0
    ELSE 2 * BitAnd(a \div 2, b \div 2) + (a % 2) * (b % 2)

\* ~a
BitNot(a) == (Modulus - 1) - a

IsPowerOfTwo(n) == \E k \in 0 .. (WordBits - 1) : n = 2 ^ k

----------------------------------------------------------------------------
(* Region *)

\* faulty variant of align_up: & taken before +, as the macro would read if & bound
\* tighter than +
align_up_prec(addr, align) ==
    Add(addr, BitAnd(Sub(align, 1), BitNot(Sub(align, 1))))

\* #define align_up(addr, align) ((addr) + ((align - 1)) & ~((align - 1)))
\* + binds tighter than &: (addr + (align - 1)) & ~(align - 1)
align_up(addr, align) ==
    BitAnd(Add(addr, Sub(align, 1)), BitNot(Sub(align, 1)))

region_init(cap, buf) ==
    [next |-> NULL, cap |-> cap, free |-> buf, begin |-> buf]

region_has_space(region, size, align) ==
    LET start == align_up(region.free, align)
    IN  ~(Add(start, size) > Add(region.begin, region.cap))

\* faulty variant of region_alloc: the alignment padding is not added to the cursor
region_alloc_nopad(region, size, align) ==
    LET start == align_up(region.free, align)
    IN  IF Add(start, size) > Add(region.begin, region.cap)
        THEN [ret |-> NULL, region |-> region]
        ELSE [ret |-> start,
              region |-> [region EXCEPT !.free = Add(region.free, size)]]

\* faulty variant of region_alloc: the cursor is set from start, and the padding
\* is added once more
region_alloc_doublepad(region, size, align) ==
    LET start == align_up(region.free, align)
    IN  IF Add(start, size) > Add(region.begin, region.cap)
        THEN [ret |-> NULL, region |-> region]
        ELSE LET offset == Sub(start, region.free)
             IN  [ret |-> start,
                  region |-> [region EXCEPT
                                 !.free = Add(Add(start, offset), size)]]

\* the value returned and the region as the call leaves it
region_alloc(region, size, align) ==
    LET start == align_up(region.free, align)
    IN  IF Add(start, size) > Add(region.begin, region.cap)
        THEN [ret |-> NULL, region |-> region]
        ELSE LET offset == Sub(start, region.free)
             IN  [ret |-> start,
                  region |-> [region EXCEPT
                                 !.free = Add(Add(region.free, offset), size)]]

----------------------------------------------------------------------------
(* Operating system boundary *)

\* the pages a mapping of `size` bytes at `page` occupies
PagesOf(page, size) ==
    { page + k * PageSize : k \in 0 .. (((size + PageSize - 1) \div PageSize) - 1) }

\* the pages the operating system has to give: page-aligned, not at address
\* zero, below UserTop
PagePool == { q \in { i * PageSize : i \in 1 .. NPages } : q + PageSize <= UserTop }

\* the addresses mmap(NULL, size, ...) can return when `taken` are mapped;
\* none when it fails
MmapChoices(size, taken) ==
    IF size = 0 THEN {}
    ELSE { p \in PagePool :
             /\ PagesOf(p, size) \subseteq PagePool
             /\ PagesOf(p, size) \cap taken = {} }

\* the header alloc_new_region writes at the start of a fresh mapping
alloc_new_region(page, size) ==
    LET start == Add(page, HeaderSize)
        offset == Sub(start, page)
    IN  region_init(Sub(size, offset), start)

----------------------------------------------------------------------------
(* Inputs *)

\* region sizes handed to arena_init: the bare header (no payload at all) and
\* the test's header + 8; a region always holds its own header, sizes below
\* sizeof(region_t) are not part of this specification
RegionSizes == { HeaderSize, HeaderSize + 8 }

\* request sizes handed to arena_alloc
Sizes == { 0, 5, 9, Modulus - 1 }

\* alignments handed to arena_alloc: powers of two, and 0 and 3 which are not
Aligns == { 1, 8, 2 * HeaderSize, 0, 3 }

----------------------------------------------------------------------------
(* Arena *)

Call(op, size, align, ret, nmap, nunmap) ==
    [op |-> op, size |-> size, align |-> align, ret |-> ret,
     nmap |-> nmap, nunmap |-> nunmap]

\* void arena_init(arena_t *a, size_t region_size), on a mapping at `page`
arena_init(region_size, page) ==
    [start |-> page, current |-> page,
     region_size |-> region_size, region_count |-> 1]

\* the arena right after arena_init(&arena, region_size) returned
Init ==
    \E region_size \in RegionSizes :
      \E page \in MmapChoices(region_size, {}) :
        /\ arena = arena_init(region_size, page)
        /\ heap = (page :> alloc_new_region(page, region_size))
        /\ mapped = PagesOf(page, region_size)
        /\ mapLog = << <<page, region_size>> >>
        /\ unmapLog = << >>
        /\ last = Call("arena_init", region_size, 0, NULL, 1, 0)
        /\ aborted = FALSE
        /\ hist = << >>
        /\ accessLog = << >>

\* line 110: the arena was released
ArenaClosed == arena.current = NULL

\* faulty variant of TooLarge: the header is not taken off the region size
TooLarge_noheader(size) == size > arena.region_size

\* line 116: size > a->region_size - sizeof(region_t), in size_t arithmetic
TooLarge(size) == size > Sub(arena.region_size, HeaderSize)

\* lines 110-113 and 116-119: return NULL and touch nothing
AllocRefused(size, align) ==
    /\ last' = Call("arena_alloc", size, align, NULL, 0, 0)
    /\ UNCHANGED <<arena, heap, mapped, mapLog, unmapLog, aborted, hist, accessLog>>

\* faulty variant of AllocFromCurrent: the block is taken from a->start
AllocFromCurrent_fromstart(size, align) ==
    LET r == region_alloc(heap[arena.start], size, align)
    IN  /\ heap' = [heap EXCEPT ![arena.start] = r.region]
        /\ last' = Call("arena_alloc", size, align, r.ret, 0, 0)
        /\ UNCHANGED <<arena, mapped, mapLog, unmapLog, aborted, hist, accessLog>>

\* lines 121-124: the current region serves the request
AllocFromCurrent(size, align) ==
    LET r == region_alloc(heap[arena.current], size, align)
    IN  /\ heap' = [heap EXCEPT ![arena.current] = r.region]
        /\ last' = Call("arena_alloc", size, align, r.ret, 0, 0)
        /\ UNCHANGED <<arena, mapped, mapLog, unmapLog, aborted, hist, accessLog>>

\* faulty variant of AllocGrow: a->region_count++ is left out
AllocGrow_nocount(size, align) ==
    IF MmapChoices(arena.region_size, mapped) = {}
    THEN /\ aborted' = TRUE
         /\ last' = Call("arena_alloc", size, align, NULL, 0, 0)
         /\ UNCHANGED <<arena, heap, mapped, mapLog, unmapLog, hist, accessLog>>
    ELSE \E page \in MmapChoices(arena.region_size, mapped) :
           LET next_region == alloc_new_region(page, arena.region_size)
               r == region_alloc(next_region, size, align)
           IN  /\ heap' = [a \in DOMAIN heap \cup {page} |->
                             IF a = page THEN r.region
                             ELSE IF a = arena.current
                                  THEN [heap[a] EXCEPT !.next = page]
                                  ELSE heap[a]]
               /\ arena' = [arena EXCEPT !.current = page]
               /\ mapped' = mapped \cup PagesOf(page, arena.region_size)
               /\ mapLog' = Append(mapLog, <<page, arena.region_size>>)
               /\ last' = Call("arena_alloc", size, align, r.ret, 1, 0)
               /\ UNCHANGED <<unmapLog, aborted, hist, accessLog>>

\* faulty variant of AllocGrow: a->current->next = next_region is left out
AllocGrow_nolink(size, align) ==
    IF MmapChoices(arena.region_size, mapped) = {}
    THEN /\ aborted' = TRUE
         /\ last' = Call("arena_alloc", size, align, NULL, 0, 0)
         /\ UNCHANGED <<arena, heap, mapped, mapLog, unmapLog, hist, accessLog>>
    ELSE \E page \in MmapChoices(arena.region_size, mapped) :
           LET next_region == alloc_new_region(page, arena.region_size)
               r == region_alloc(next_region, size, align)
           IN  /\ heap' = [a \in DOMAIN heap \cup {page} |->
                             IF a = page THEN r.region ELSE heap[a]]
               /\ arena' = [arena EXCEPT
                              !.current = page,
                              !.region_count = Add(arena.region_count, 1)]
               /\ mapped' = mapped \cup PagesOf(page, arena.region_size)
               /\ mapLog' = Append(mapLog, <<page, arena.region_size>>)
               /\ last' = Call("arena_alloc", size, align, r.ret, 1, 0)
               /\ UNCHANGED <<unmapLog, aborted, hist, accessLog>>

\* lines 126-132: map a region, link it, make it current, allocate from it
AllocGrow(size, align) ==
    IF MmapChoices(arena.region_size, mapped) = {}
    THEN \* mmap returned MAP_FAILED: the assert of line 86 ends the process
         /\ aborted' = TRUE
         /\ last' = Call("arena_alloc", size, align, NULL, 0, 0)
         /\ UNCHANGED <<arena, heap, mapped, mapLog, unmapLog, hist, accessLog>>
    ELSE \E page \in MmapChoices(arena.region_size, mapped) :
           LET next_region == alloc_new_region(page, arena.region_size)
               r == region_alloc(next_region, size, align)
           IN  /\ heap' = [a \in DOMAIN heap \cup {page} |->
                             IF a = page THEN r.region
                             ELSE IF a = arena.current
                                  THEN [heap[a] EXCEPT !.next = page]
                                  ELSE heap[a]]
               /\ arena' = [arena EXCEPT
                              !.current = page,
                              !.region_count = Add(arena.region_count, 1)]
               /\ mapped' = mapped \cup PagesOf(page, arena.region_size)
               /\ mapLog' = Append(mapLog, <<page, arena.region_size>>)
               /\ last' = Call("arena_alloc", size, align, r.ret, 1, 0)
               /\ UNCHANGED <<unmapLog, aborted, hist, accessLog>>

\* void *arena_alloc(arena_t *a, size_t size, size_t align), with size drawn
\* from `sizes`
ArenaAllocOf(sizes) ==
    /\ ~aborted
    /\ \E size \in sizes, align \in Aligns :
         \* lines 37-38: an align that reaches align_up is a power of two
         /\ ArenaClosed \/ TooLarge(size) \/ IsPowerOfTwo(align)
         /\ IF ArenaClosed THEN AllocRefused(size, align)
            ELSE IF TooLarge(size) THEN AllocRefused(size, align)
            ELSE IF region_has_space(heap[arena.current], size, align)
                 THEN AllocFromCurrent(size, align)
                 ELSE AllocGrow(size, align)

ArenaAlloc == ArenaAllocOf(Sizes)

RECURSIVE ReleaseWalk_skiptail(_, _)
\* faulty variant of ReleaseWalk: while (ptr->next != NULL), which leaves the tail mapped
ReleaseWalk_skiptail(ptr, h) ==
    IF ptr = NULL THEN << >>
    ELSE IF h[ptr].next = NULL THEN << >>
    ELSE << ptr >> \o ReleaseWalk_skiptail(h[ptr].next, h)

RECURSIVE ReleaseWalk_dowhile(_, _)
\* faulty variant of ReleaseWalk: do { ... } while (ptr != NULL), which unmaps once
\* even when the chain is empty
ReleaseWalk_dowhile(ptr, h) ==
    IF ptr = NULL THEN << NULL >>
    ELSE IF h[ptr].next = NULL THEN << ptr >>
    ELSE << ptr >> \o ReleaseWalk_dowhile(h[ptr].next, h)

RECURSIVE ReleaseSteps_unmapfirst(_, _, _)
\* faulty variant of ReleaseSteps: the region is unmapped before ptr->next is read
ReleaseSteps_unmapfirst(ptr, h, unmapped) ==
    IF ptr = NULL THEN << >>
    ELSE << [op |-> "munmap", region |-> ptr, unmapped |-> unmapped],
            [op |-> "read_next", region |-> ptr, unmapped |-> unmapped \cup {ptr}] >>
         \o ReleaseSteps_unmapfirst(h[ptr].next, h, unmapped \cup {ptr})

RECURSIVE ReleaseSteps(_, _, _)
\* what the loop of lines 137-143 does to the regions, in order: line 140
\* reads ptr->next, line 141 unmaps ptr; `unmapped` are the regions unmapped
\* before the step
ReleaseSteps(ptr, h, unmapped) ==
    IF ptr = NULL THEN << >>
    ELSE << [op |-> "read_next", region |-> ptr, unmapped |-> unmapped],
            [op |-> "munmap", region |-> ptr, unmapped |-> unmapped] >>
         \o ReleaseSteps(h[ptr].next, h, unmapped \cup {ptr})

RECURSIVE ReleaseWalk(_, _)
\* the regions the loop of lines 137-143 visits, in order: ptr, ptr->next, ...
ReleaseWalk(ptr, h) ==
    IF ptr = NULL THEN << >>
    ELSE << ptr >> \o ReleaseWalk(h[ptr].next, h)

\* faulty variant of ArenaRelease: a->region_count = 0 is left out
ArenaRelease_keepcount ==
    /\ ~aborted
    /\ LET walk == ReleaseWalk(arena.start, heap)
           gone == UNION { PagesOf(walk[i], arena.region_size) : i \in 1 .. Len(walk) }
       IN  /\ unmapLog' = unmapLog \o
                            [i \in 1 .. Len(walk) |-> <<walk[i], arena.region_size>>]
           /\ mapped' = mapped \ gone
           /\ heap' = [a \in { b \in DOMAIN heap : b \notin gone } |-> heap[a]]
           /\ arena' = [arena EXCEPT !.start = NULL, !.current = NULL]
           /\ last' = Call("arena_release", 0, 0, NULL, 0, Len(walk))
           /\ accessLog' = accessLog \o ReleaseSteps(arena.start, heap, {})
    /\ UNCHANGED <<mapLog, aborted, hist>>

\* void arena_release(arena_t *a)
ArenaRelease ==
    /\ ~aborted
    /\ LET walk == ReleaseWalk(arena.start, heap)
           gone == UNION { PagesOf(walk[i], arena.region_size) : i \in 1 .. Len(walk) }
       IN  /\ unmapLog' = unmapLog \o
                            [i \in 1 .. Len(walk) |-> <<walk[i], arena.region_size>>]
           /\ mapped' = mapped \ gone
           /\ heap' = [a \in { b \in DOMAIN heap : b \notin gone } |-> heap[a]]
           /\ arena' = [arena EXCEPT
                          !.start = NULL, !.current = NULL, !.region_count = 0]
           /\ last' = Call("arena_release", 0, 0, NULL, 0, Len(walk))
           /\ accessLog' = accessLog \o ReleaseSteps(arena.start, heap, {})
    /\ UNCHANGED <<mapLog, aborted, hist>>

Next == ArenaAlloc \/ ArenaRelease

Spec == Init /\ [][Next]_vars

----------------------------------------------------------------------------
(* An arena whose region_size is below sizeof(region_t) *)

\* region sizes handed to arena_init: half a header, and the bare header
SmallRegionSizes == { HeaderSize \div 2, HeaderSize }

\* request sizes handed to arena_alloc: nothing, and two sizes close to
\* SIZE_MAX, the larger one above region_size - sizeof(region_t) as line 116
\* computes it for half a header
SmallSizes == { 0, Modulus - 24, Modulus - 1 }

\* the arena right after arena_init(&arena, region_size) returned
InitSmall ==
    \E region_size \in SmallRegionSizes :
      \E page \in MmapChoices(region_size, {}) :
        /\ arena = arena_init(region_size, page)
        /\ heap = (page :> alloc_new_region(page, region_size))
        /\ mapped = PagesOf(page, region_size)
        /\ mapLog = << <<page, region_size>> >>
        /\ unmapLog = << >>
        /\ last = Call("arena_init", region_size, 0, NULL, 1, 0)
        /\ aborted = FALSE
        /\ hist = << >>
        /\ accessLog = << >>

ArenaAllocSmall == ArenaAllocOf(SmallSizes)

NextSmall == ArenaAllocSmall \/ ArenaRelease

SpecSmall == InitSmall /\ [][NextSmall]_vars

----------------------------------------------------------------------------
(* A region on its own, over a buffer of the caller, as in test_region *)

\* how many region_alloc calls are made on the stand-alone region
MaxCalls == 3

\* where the caller's region_t lives; only its identity matters
StackRegion == UserTop - HeaderSize

\* capacities of the caller's buffer: the test's char buf[10], and 8
RegionCaps == { 10, 8 }

\* addresses of the caller's buffer: every residue modulo 4
RegionBufs == { PageSize + k : k \in 0 .. 3 }

\* request sizes handed to region_alloc; the largest is SIZE_MAX - 1, and
\* Modulus - PageSize is the distance from the first buffer to the end of the
\* address space
RegionAllocSizes == { 0, 3, 5, Modulus - 2, Modulus - PageSize }

\* alignments handed to region_alloc (powers of two, lines 37-38)
RegionAllocAligns == { 1, 4, 8 }

\* no arena: the region is initialised by region_init alone
NoArena == [start |-> NULL, current |-> NULL, region_size |-> 0, region_count |-> 0]

\* the region right after region_init(&region, cap, buf) returned
InitRegion ==
    \E cap \in RegionCaps, buf \in RegionBufs :
        /\ buf + cap <= StackRegion
        /\ arena = NoArena
        /\ heap = (StackRegion :> region_init(cap, buf))
        /\ mapped = {}
        /\ mapLog = << >>
        /\ unmapLog = << >>
        /\ last = Call("region_init", cap, 0, NULL, 0, 0)
        /\ aborted = FALSE
        /\ hist = << >>
        /\ accessLog = << >>

\* void *region_alloc(region_t *region, size_t size, size_t align)
RegionAlloc ==
    /\ Len(hist) < MaxCalls
    /\ \E size \in RegionAllocSizes, align \in RegionAllocAligns :
         LET r == region_alloc(heap[StackRegion], size, align)
         IN  /\ heap' = [heap EXCEPT ![StackRegion] = r.region]
             /\ last' = Call("region_alloc", size, align, r.ret, 0, 0)
             /\ hist' = Append(hist, [size |-> size, align |-> align, ret |-> r.ret,
                                      before |-> heap[StackRegion].free,
                                      after |-> r.region.free])
    /\ UNCHANGED <<arena, mapped, mapLog, unmapLog, aborted, accessLog>>

NextRegion == RegionAlloc

SpecRegion == InitRegion /\ [][NextRegion]_vars

\* bool region_has_space(region_t *region, size_t size, size_t align); the
\* result is recorded as 1 for true and 0 for false
RegionHasSpace ==
    /\ \E size \in RegionAllocSizes, align \in RegionAllocAligns :
         last' = Call("region_has_space", size, align,
                      IF region_has_space(heap[StackRegion], size, align) THEN 1 ELSE 0,
                      0, 0)
    /\ UNCHANGED <<arena, heap, mapped, mapLog, unmapLog, aborted, hist, accessLog>>

\* how many region_alloc calls are made when region_has_space is called too
MaxProbedCalls == 2

\* region_alloc, while the caller also asks region_has_space
ProbedRegionAlloc == Len(hist) < MaxProbedCalls /\ RegionAlloc

NextProbe == ProbedRegionAlloc \/ RegionHasSpace

\* the stand-alone region with region_has_space called between the allocations
SpecProbe == InitRegion /\ [][NextProbe]_vars

----------------------------------------------------------------------------
(* Properties *)

\* the smallest multiple of n that is >= a, in unbounded arithmetic
RoundUp(a, n) == CHOOSE m \in a .. (a + n - 1) : m % n = 0

RECURSIVE Path(_, _, _)
\* the regions met from ptr by following next, at most n of them
Path(ptr, h, n) ==
    IF ptr = NULL \/ n = 0 \/ ptr \notin DOMAIN h THEN << >>
    ELSE << ptr >> \o Path(h[ptr].next, h, n - 1)

\* the chain of the arena, cut after one region more than there are headers
Chain == Path(arena.start, heap, Cardinality(DOMAIN heap) + 1)

\* the regions the arena owns
Owned == { Chain[i] : i \in 1 .. Len(Chain) }

\* the last call was an arena_alloc that returned to its caller
AllocReturned == last.op = "arena_alloc" /\ ~aborted

\* C1: a non-NULL result of arena_alloc(size, align) on an open arena, with
\* align a power of two and size <= region_size - sizeof(region_t), is a
\* multiple of align, and [ret, ret + size) lies inside [begin, begin + cap)
\* of a region the arena owns.
C1_AlignedInsideOwnedRegion ==
    ( /\ AllocReturned
      /\ last.ret # NULL
      /\ IsPowerOfTwo(last.align)
      /\ last.size + HeaderSize <= arena.region_size )
    => /\ last.ret % last.align = 0
       /\ \E r \in Owned :
            /\ heap[r].begin <= last.ret
            /\ last.ret + last.size <= heap[r].begin + heap[r].cap

\* an 8-aligned 5-byte block was handed out by a region mapped on growth
C1_Witness ==
    /\ AllocReturned
    /\ last.ret # NULL
    /\ last.size = 5
    /\ last.align = 8
    /\ last.nmap = 1
    /\ arena.region_count = 2
    /\ last.ret = heap[arena.current].begin

\* C3: on an open arena, with align a power of two and size <= region_size -
\* sizeof(region_t), arena_alloc never returns NULL: when the current region
\* lacks space, the retry in the region just mapped succeeds and the block
\* lies inside that region.
C3_GrowthAlwaysSucceeds ==
    ( /\ AllocReturned
      /\ ~ArenaClosed
      /\ IsPowerOfTwo(last.align)
      /\ last.size + HeaderSize <= arena.region_size )
    => /\ last.ret # NULL
       /\ last.nmap = 1 =>
            /\ heap[arena.current].begin <= last.ret
            /\ last.ret + last.size <=
                 heap[arena.current].begin + heap[arena.current].cap

\* C4: arena_alloc maps a region exactly when the arena is open, size <=
\* region_size - sizeof(region_t) and region_has_space(current, size, align)
\* is false; it then maps exactly one region and region_count grows by
\* exactly 1.  In every other case nothing is mapped and region_count stays.
C4_MapsExactlyWhenNoSpace ==
    [][ (last'.op = "arena_alloc" /\ ~aborted') =>
          IF /\ arena.current # NULL
             /\ last'.size <= Sub(arena.region_size, HeaderSize)
             /\ ~region_has_space(heap[arena.current], last'.size, last'.align)
          THEN /\ Len(mapLog') = Len(mapLog) + 1
               /\ Cardinality(DOMAIN heap') = Cardinality(DOMAIN heap) + 1
               /\ arena'.region_count = arena.region_count + 1
               /\ last'.nmap = 1
          ELSE /\ mapLog' = mapLog
               /\ mapped' = mapped
               /\ DOMAIN heap' = DOMAIN heap
               /\ arena'.region_count = arena.region_count
               /\ last'.nmap = 0 ]_vars

\* a call mapped the third region of the arena
C4_Witness ==
    /\ AllocReturned
    /\ last.nmap = 1
    /\ arena.region_count = 3
    /\ Len(mapLog) = 3

\* C5: on an open arena, arena_alloc(size, align) with size > region_size -
\* sizeof(region_t) returns NULL whatever align is, and changes nothing:
\* region_count, start, current, every region's free cursor and next link,
\* and the set of mappings are as before.
C5_TooLargeRefused ==
    [][ ( /\ last'.op = "arena_alloc"
          /\ arena.current # NULL
          /\ last'.size > Sub(arena.region_size, HeaderSize) )
        => /\ last'.ret = NULL
           /\ last'.nmap = 0
           /\ UNCHANGED <<arena, heap, mapped, mapLog, unmapLog, aborted>> ]_vars

\* a 9-byte request with align 3 was refused by an arena of two 8-byte regions
C5_Witness ==
    /\ AllocReturned
    /\ arena.current # NULL
    /\ arena.region_count = 2
    /\ arena.region_size = HeaderSize + 8
    /\ last.size = 9
    /\ last.align = 3
    /\ last.ret = NULL

\* the calls on the stand-alone region that returned a block
Served == { i \in 1 .. Len(hist) : hist[i].ret # NULL }

\* C2: the blocks one region hands out, in the order of the calls, do not
\* overlap and their addresses never decrease: each block starts at or after
\* the end of every block handed out before it, so no byte below the free
\* cursor is handed out again.
C2_BlocksDisjointAndOrdered ==
    \A i \in Served, j \in Served :
        i < j => /\ hist[i].ret <= hist[j].ret
                 /\ hist[i].ret + hist[i].size <= hist[j].ret

\* C6: arena_release leaves region_count = 0 and start = current = NULL, the
\* arena stays closed, and every arena_alloc on the closed arena returns NULL,
\* maps nothing and leaves the arena, the regions and the mappings as they
\* are.
C6_ClosedArenaRefuses ==
    /\ [](last.op = "arena_release" =>
            /\ arena.region_count = 0
            /\ arena.start = NULL
            /\ arena.current = NULL)
    /\ [][ arena.current = NULL =>
             /\ arena'.current = NULL
             /\ last'.op = "arena_alloc" =>
                  /\ last'.ret = NULL
                  /\ last'.nmap = 0
                  /\ UNCHANGED <<arena, heap, mapped, mapLog, unmapLog, aborted>> ]_vars

\* an arena_alloc(5, 8) on an arena that was released with two regions
C6_Witness ==
    /\ AllocReturned
    /\ arena.current = NULL
    /\ Len(unmapLog) = 2
    /\ last.size = 5
    /\ last.align = 8
    /\ last.ret = NULL

\* C7: once arena_release has returned, every mapping made for the arena has
\* been unmapped exactly once, at its address and with the length it was
\* mapped with, and nothing of the arena stays mapped.
C7_ReleaseUnmapsEachOnce ==
    arena.start = NULL =>
        /\ mapped = {}
        /\ Len(unmapLog) = Len(mapLog)
        /\ \A i \in 1 .. Len(mapLog) :
             Cardinality({ j \in 1 .. Len(unmapLog) : unmapLog[j] = mapLog[i] }) = 1

\* a release of a chain of three regions
C7_Witness ==
    /\ last.op = "arena_release"
    /\ last.nunmap = 3
    /\ Len(mapLog) = 3
    /\ mapped = {}

\* C8: arena_release on an arena that is already released unmaps nothing and
\* leaves start = current = NULL and region_count = 0: the arena, the
\* mappings and the unmap calls are those of the single release.
C8_ReleaseIdempotent ==
    [][ (arena.start = NULL /\ arena.current = NULL /\ last'.op = "arena_release") =>
          /\ last'.nunmap = 0
          /\ unmapLog' = unmapLog
          /\ mapped' = mapped
          /\ heap' = heap
          /\ arena' = arena
          /\ arena'.start = NULL
          /\ arena'.current = NULL
          /\ arena'.region_count = 0 ]_vars

\* a second release, after a release that unmapped two regions
C8_Witness ==
    /\ last.op = "arena_release"
    /\ last.nunmap = 0
    /\ Len(unmapLog) = 2
    /\ arena.start = NULL

\* the first three calls on the stand-alone region were region_alloc(3, 4)
ThreeTimesThreeByFour ==
    /\ Len(hist) >= 3
    /\ \A i \in 1 .. 3 : hist[i].size = 3 /\ hist[i].align = 4

\* C9: a region_alloc(size, align) that returns a block returns the free
\* cursor rounded up to align and leaves the cursor at that address + size
\* (as a machine word).  On a region of capacity 10 at any base B, three
\* region_alloc(3, 4) return RoundUp(B, 4), then that address + 4, then NULL.
C9_TightlyPacked ==
    /\ \A i \in Served :
         /\ hist[i].ret = RoundUp(hist[i].before, hist[i].align)
         /\ hist[i].after = (hist[i].ret + hist[i].size) % Modulus
    /\ (heap[StackRegion].cap = 10 /\ ThreeTimesThreeByFour) =>
         /\ hist[1].ret = RoundUp(heap[StackRegion].begin, 4)
         /\ hist[2].ret = hist[1].ret + 4
         /\ hist[3].ret = NULL

\* test_region on a buffer at an odd address: the first block is padded
C9_Witness ==
    /\ heap[StackRegion].cap = 10
    /\ heap[StackRegion].begin % 4 = 3
    /\ ThreeTimesThreeByFour
    /\ hist[1].ret = heap[StackRegion].begin + 1
    /\ hist[3].ret = NULL

\* the arena was released at some time: arena_release unmapped its regions
Released == unmapLog # << >>

\* C10: while the arena is open, current is reached from start by next
\* links, current->next is NULL, the chain has no cycle, and region_count is
\* the number of regions reached from start and is at least 1; region_count
\* is 0 exactly when the arena has been released.
C10_ChainShape ==
    /\ ~Released =>
         /\ Len(Chain) >= 1
         /\ Chain[Len(Chain)] = arena.current
         /\ heap[arena.current].next = NULL
         /\ Cardinality(Owned) = Len(Chain)
         /\ Owned = DOMAIN heap
         /\ arena.region_count = Len(Chain)
         /\ arena.region_count >= 1
    /\ arena.region_count = 0 <=> Released

\* an open arena with a chain of three regions
C10_Witness ==
    /\ ~Released
    /\ arena.region_count = 3
    /\ Len(Chain) = 3
    /\ arena.current # arena.start

\* C11: a region that is no longer the tail is touched by nothing but
\* arena_release: over every arena_alloc its free cursor, begin, cap and next
\* link stay as they are, and every block arena_alloc hands out lies in the
\* region that is current after the call.
C11_EarlierRegionsFrozen ==
    [][ last'.op = "arena_alloc" =>
          /\ \A r \in DOMAIN heap : r # arena.current => heap'[r] = heap[r]
          /\ (last'.ret # NULL /\ ~aborted') =>
               /\ heap'[arena'.current].begin <= last'.ret
               /\ last'.ret + last'.size <=
                    heap'[arena'.current].begin + heap'[arena'.current].cap
               /\ last'.ret + last'.size = heap'[arena'.current].free ]_vars

\* a block was handed out by the tail although the first region, still empty,
\* has room for the same request
C11_Witness ==
    /\ AllocReturned
    /\ last.ret # NULL
    /\ last.size = 5
    /\ arena.region_count >= 2
    /\ arena.current # arena.start
    /\ heap[arena.start].free = heap[arena.start].begin
    /\ region_has_space(heap[arena.start], last.size, last.align)
    /\ heap[arena.current].begin <= last.ret

\* C12: in an arena made with region_size >= sizeof(region_t), every region
\* has begin <= free <= begin + cap in every state; over arena_alloc free
\* never goes down and begin and cap never change; region_size never changes.
C12_CursorWithinBounds ==
    /\ [](arena.region_size >= HeaderSize =>
            \A r \in DOMAIN heap :
                /\ heap[r].begin <= heap[r].free
                /\ heap[r].free <= heap[r].begin + heap[r].cap)
    /\ [][ arena.region_size >= HeaderSize =>
             /\ arena'.region_size = arena.region_size
             /\ last'.op = "arena_alloc" =>
                  \A r \in DOMAIN heap :
                      /\ r \in DOMAIN heap'
                      /\ heap'[r].free >= heap[r].free
                      /\ heap'[r].begin = heap[r].begin
                      /\ heap'[r].cap = heap[r].cap ]_vars

\* the cursor of the second region was moved past alignment padding to the
\* end of the region
C12_Witness ==
    /\ AllocReturned
    /\ arena.region_count = 2
    /\ last.align = 8
    /\ last.nmap = 0
    /\ last.ret = heap[arena.current].begin + 8
    /\ heap[arena.current].free = heap[arena.current].begin + heap[arena.current].cap

\* C13: on every state of a region and for every (size, align),
\* region_has_space is true exactly when region_alloc on the same state with
\* the same arguments returns a block; and the state a region_has_space call
\* was made on still has the result it reported.
C13_HasSpaceAgreesWithAlloc ==
    /\ \A size \in RegionAllocSizes, align \in RegionAllocAligns :
         region_has_space(heap[StackRegion], size, align)
           <=> region_alloc(heap[StackRegion], size, align).ret # NULL
    /\ last.op = "region_has_space" =>
         (last.ret = 1 <=>
            region_alloc(heap[StackRegion], last.size, last.align).ret # NULL)

\* C14: whatever the size, a block region_alloc returns satisfies, in
\* unbounded arithmetic, begin <= start and start + size <= begin + cap, and
\* the call does not lower the free cursor.
C14_BlockInsideForEverySize ==
    \A i \in Served :
        /\ heap[StackRegion].begin <= hist[i].ret
        /\ hist[i].ret + hist[i].size <= heap[StackRegion].begin + heap[StackRegion].cap
        /\ hist[i].after >= hist[i].before

\* C15: a region_alloc call that returns NULL leaves the free cursor where it
\* was (begin, cap and next are never written by region_alloc).
C15_FailedAllocChangesNothing ==
    \A i \in 1 .. Len(hist) :
        hist[i].ret = NULL => hist[i].after = hist[i].before

\* C16: for every region_size handed to arena_init, sizes below
\* sizeof(region_t) included, cap is region_size - sizeof(region_t) without
\* wrap-around and begin + cap is the end of the region's mapping; every block
\* arena_alloc returns lies inside [page + sizeof(region_t), page + region_size)
\* of a region the arena owns; and a request larger than that payload is
\* refused by the size guard, with no region mapped.
C16_CapIsRealPayload ==
    /\ \A r \in Owned :
         /\ heap[r].cap = arena.region_size - HeaderSize
         /\ heap[r].begin + heap[r].cap = r + arena.region_size
    /\ (AllocReturned /\ last.ret # NULL) =>
         \E r \in Owned :
             /\ r + HeaderSize <= last.ret
             /\ last.ret + last.size <= r + arena.region_size
    /\ (last.op = "arena_alloc" /\ last.size > arena.region_size - HeaderSize) =>
         (last.ret = NULL /\ last.nmap = 0)

\* the regions arena_release unmapped, in the order of the munmap calls
Unmaps(steps) ==
    LET calls == SelectSeq(steps, LAMBDA e : e.op = "munmap")
    IN  [i \in 1 .. Len(calls) |-> calls[i].region]

\* C17: during arena_release no field of a region is read or written after
\* the region was unmapped: next of each region is read before that region
\* is unmapped and no region is unmapped twice; the regions are unmapped in
\* chain order from start; and the walk ends after exactly region_count
\* munmap calls.
C17_NoAccessAfterUnmap ==
    [][ last'.op = "arena_release" =>
          LET steps == SubSeq(accessLog', Len(accessLog) + 1, Len(accessLog'))
          IN  /\ \A i \in 1 .. Len(steps) : steps[i].region \notin steps[i].unmapped
              /\ \A r \in Owned :
                   \E i, j \in 1 .. Len(steps) :
                       /\ i < j
                       /\ steps[i] = [op |-> "read_next", region |-> r,
                                      unmapped |-> steps[i].unmapped]
                       /\ steps[j].op = "munmap" /\ steps[j].region = r
              /\ Unmaps(steps) = Chain
              /\ Len(Unmaps(steps)) = arena.region_count
              /\ last'.nunmap = arena.region_count ]_vars

C17_Witness ==
    /\ last.op = "arena_release" /\ last.nunmap = NPages
    /\ Len(accessLog) = 2 * NPages
    /\ accessLog[1].op = "read_next" /\ accessLog[2].op = "munmap"
    /\ accessLog[2 * NPages].unmapped # {}
    /\ arena.start = NULL /\ heap = << >>


====
